---- MODULE Spec2Model ----
(***************************************************************************)
(* A model of the sharded concurrent map of linhyee/cmap: the facade       *)
(* myConcurrentMap, its segments (one mutex each), the default             *)
(* PairRedistributor, and the Bucket chains the segments hold.             *)
(*                                                                         *)
(* The Bucket type and the DEFAULT_* / MAX_CONCURRENCY constants are       *)
(* declared outside the given sources; the bucket operations below follow  *)
(* section 4.2 of the specification (prepend on insert, in-place value     *)
(* update, order-preserving removal).                                      *)
(***************************************************************************)
EXTENDS Integers, Sequences, FiniteSets, TLC

(***************************************************************************)
(* Bounds of the model.                                                    *)
(***************************************************************************)
\* The number of calls (of any operation, by any thread) in one behaviour.
MaxOps == 3
\* The largest shard count NewConcurrentMap is called with (it stands in
\* for MAX_CONCURRENCY, which the given sources use but do not declare).
MaxConcurrency == 2

Threads == {1, 2}

\* nil, for an element and for an error.
NIL == "nil"

(***************************************************************************)
(* uint64 arithmetic, on four 16-bit limbs (least significant first), so   *)
(* that hashes above 2^32 and the wrap of the counters are as in Go.       *)
(***************************************************************************)
Limb == 2^16

U64Zero == <<0, 0, 0, 0>>

\* uint64(n) for 0 <= n < 2^31
U64FromNat(n) == <<n % Limb, n \div Limb, 0, 0>>

\* ^uint64(0)
U64Max == <<Limb - 1, Limb - 1, Limb - 1, Limb - 1>>

\* x + y, wrapping at 2^64
U64Add(x, y) ==
    LET s1 == x[1] + y[1]
        s2 == x[2] + y[2] + (s1 \div Limb)
        s3 == x[3] + y[3] + (s2 \div Limb)
        s4 == x[4] + y[4] + (s3 \div Limb)
    IN  <<s1 % Limb, s2 % Limb, s3 % Limb, s4 % Limb>>

\* x * m, wrapping at 2^64, for 0 <= m < 2^15
U64MulSmall(x, m) ==
    LET p1 == x[1] * m
        p2 == x[2] * m + (p1 \div Limb)
        p3 == x[3] * m + (p2 \div Limb)
        p4 == x[4] * m + (p3 \div Limb)
    IN  <<p1 % Limb, p2 % Limb, p3 % Limb, p4 % Limb>>

\* x % n, for 0 < n < 2^15
U64ModSmall(x, n) ==
    LET r4 == x[4] % n
        r3 == (r4 * Limb + x[3]) % n
        r2 == (r3 * Limb + x[2]) % n
    IN  (r2 * Limb + x[1]) % n

\* x > math.MaxUint32
U64AboveUint32(x) == x[3] # 0 \/ x[4] # 0

\* a uint32 shifted right by n bits (Go: a shift by the width or more is 0)
Shr32(x, n) == IF n >= 32 THEN 0 ELSE x \div (2^n)

(***************************************************************************)
(* utils.go: the BKDR hash of a key.  A key is the sequence of its bytes.  *)
(***************************************************************************)
seed == 13131

RECURSIVE hashLoop(_, _, _)
hashLoop(str, i, h) ==
    IF i > Len(str) THEN h
    ELSE hashLoop(str, i + 1, U64Add(U64MulSmall(h, seed), U64FromNat(str[i])))

hash(str) ==
    LET h == hashLoop(str, 1, U64Zero)
    IN  [h EXCEPT ![4] = h[4] % (2^15)]

\* "a", "i", "aae": the three share bucket 1 of 8; of 16 buckets "a" is in
\* bucket 1 and "i", "aae" are in bucket 9.  hash("aae") is above 2^32.
\* With the load factor below, the second new pair of a segment doubles its
\* 8 buckets.
KeyA == <<97>>
KeyI == <<105>>
KeyAAE == <<97, 97, 101>>
Keys == {KeyA, KeyI, KeyAAE}

\* The non-nil elements callers put.
Values == {"v1", "v2"}

\* The keys each thread uses when the threads work on disjoint key sets.
KeysOf(t) == IF t = 1 THEN {KeyA, KeyI} ELSE {KeyAAE}

KeyHash == [k \in Keys |-> hash(k)]


(***************************************************************************)
(* The state.                                                              *)
(***************************************************************************)
VARIABLES
    concurrency,  \* myConcurrentMap.concurrency
    policy,       \* which PairRedistributor the map was built with
    total,        \* myConcurrentMap.total, a uint64
    buckets,      \* buckets[s]: segment s's slice of buckets (references into heap)
    bucketsLen,   \* bucketsLen[s]: segment.bucketsLen
    pairTotal,    \* pairTotal[s]: segment.pairTotal
    lock,         \* lock[s]: the thread holding segment s's mutex, or 0
    heap,         \* heap[b]: the chain of bucket object b, its first pair first
    pr,           \* the myPairRedistributor the segments share
    th,           \* th[t]: the call thread t is in, where in it, its results
    seq,          \* the map a sequential run of the returned calls gives
    ncalls        \* the number of calls made so far

vars == <<concurrency, policy, total, buckets, bucketsLen, pairTotal, lock,
          heap, pr, th, seq, ncalls>>

structure == <<buckets, bucketsLen, pairTotal, heap, pr>>

Segments == 0 .. (concurrency - 1)

(***************************************************************************)
(* Constants the given sources use and do not declare.                     *)
(***************************************************************************)
DEFAULT_BUCKET_NUMBER == 8
DEFAULT_BUCKET_MAX_SIZE == 1000

\* The loadFactor the shared redistributor is built with,
\* newDefaultPairRedistributor(1.0/64, DEFAULT_BUCKET_NUMBER): with it the
\* upper threshold of a bucket is uint64(100 * 0.015625) = 1 pair.
loadFactor == [num |-> 1, den |-> 64]

BUCKET_STATUS_NORMAL == 0
BUCKET_STATUS_UNDERWEIGHT == 1
BUCKET_STATUS_OVERWEIGHT == 2

(***************************************************************************)
(* pair.go: newPair.                                                       *)
(***************************************************************************)
\* a mutant of newPair: the element is not checked
newPair_unchecked(key, element) ==
    [p |-> [key |-> key, hash |-> KeyHash[key], element |-> element], err |-> NIL]

newPair(key, element) ==
    IF element = NIL
    THEN [p |-> NIL, err |-> "IllegalParameterError"]
    ELSE [p |-> [key |-> key, hash |-> KeyHash[key], element |-> element],
          err |-> NIL]

(***************************************************************************)
(* myConcurrentMap.findSegment: the index of the segment of a key hash.    *)
(* The local keyHash32 is read before it is ever assigned from keyHash, so *)
(* it holds the zero value of a uint32.                                    *)
(***************************************************************************)
findSegment(keyHash) ==
    IF concurrency = 1 THEN 0
    ELSE LET zeroValue == 0
             keyHash32 == IF U64AboveUint32(keyHash)
                          THEN Shr32(zeroValue, 32)
                          ELSE zeroValue
         IN  Shr32(keyHash32, 16) % (concurrency - 1)

(***************************************************************************)
(* Bucket (specification, section 4.2).  A chain is a sequence of pairs.   *)
(***************************************************************************)
RECURSIVE chainFind(_, _, _)
\* the index of the first pair of chain with the key, from index i; 0 if none
chainFind(chain, key, i) ==
    IF i > Len(chain) THEN 0
    ELSE IF chain[i].key = key THEN i
    ELSE chainFind(chain, key, i + 1)

\* Bucket.Get: the pair with the key as <<pair>>, or <<>> for a nil Pair
bucketGet(chain, key) ==
    LET i == chainFind(chain, key, 1)
    IN  IF i = 0 THEN <<>> ELSE <<chain[i]>>

\* Bucket.Put: the value of a pair with the key is replaced in place (not
\* new); otherwise a node for the pair becomes the new head (new).
bucketPut(chain, p) ==
    LET i == chainFind(chain, p.key, 1)
    IN  IF i # 0
        THEN [chain |-> [chain EXCEPT ![i].element = p.element],
              ok |-> FALSE, err |-> NIL]
        ELSE [chain |-> <<p>> \o chain, ok |-> TRUE, err |-> NIL]

\* Bucket.Delete: the chain without the pair of the key, the others in order
bucketDelete(chain, key) ==
    LET i == chainFind(chain, key, 1)
    IN  IF i = 0
        THEN [chain |-> chain, ok |-> FALSE]
        ELSE [chain |-> SubSeq(chain, 1, i - 1) \o SubSeq(chain, i + 1, Len(chain)),
              ok |-> TRUE]

\* Bucket.Size
bucketSize(chain) == Len(chain)

\* newBucket / Bucket.Clear: the empty chain
emptyChain == <<>>


(***************************************************************************)
(* myPairRedistributor, the default PairRedistributor.  Its state is the   *)
(* record [upperThreshold, overweightBucketCount, emptyBucketCount].       *)
(***************************************************************************)
\* UpdateThreshold: uint64(max(float64(pairTotal / bucketNumber), 100) * loadFactor)
UpdateThreshold(r, pTotal, bucketNumber) ==
    LET quotient == pTotal \div bucketNumber
        average == IF quotient < 100 THEN 100 ELSE quotient
    IN  [r EXCEPT !.upperThreshold = (average * loadFactor.num) \div loadFactor.den]

\* a mutant of CheckBucketStatus: an empty bucket is reported underweight
CheckBucketStatus_underweight(r, pTotal, bSize) ==
    IF bSize > DEFAULT_BUCKET_MAX_SIZE \/ bSize >= r.upperThreshold
    THEN [pr |-> [r EXCEPT !.overweightBucketCount = @ + 1],
          bucketStatus |-> BUCKET_STATUS_OVERWEIGHT]
    ELSE IF bSize = 0
    THEN [pr |-> [r EXCEPT !.emptyBucketCount = @ + 1],
          bucketStatus |-> BUCKET_STATUS_UNDERWEIGHT]
    ELSE [pr |-> r, bucketStatus |-> BUCKET_STATUS_NORMAL]

\* CheckBucketStatus: the bucket's status, and the counters after the check
CheckBucketStatus(r, pTotal, bSize) ==
    IF bSize > DEFAULT_BUCKET_MAX_SIZE \/ bSize >= r.upperThreshold
    THEN [pr |-> [r EXCEPT !.overweightBucketCount = @ + 1],
          bucketStatus |-> BUCKET_STATUS_OVERWEIGHT]
    ELSE IF bSize = 0
    THEN [pr |-> [r EXCEPT !.emptyBucketCount = @ + 1],
          bucketStatus |-> BUCKET_STATUS_NORMAL]
    ELSE [pr |-> r, bucketStatus |-> BUCKET_STATUS_NORMAL]

RECURSIVE collectPairs(_, _, _)
\* Redistribe, "copy": the pairs of the buckets bks[i..], bucket by bucket,
\* each chain from its first pair
collectPairs(hp, bks, i) ==
    IF i > Len(bks) THEN <<>>
    ELSE hp[bks[i]] \o collectPairs(hp, bks, i + 1)

\* a mutant of redistIndex: the index is taken in the old bucket count
redistIndex_old(keyHash, newNumber) == U64ModSmall(keyHash, newNumber \div 2)

\* Redistribe: index := int(p.Hash() % newNumber)
redistIndex(keyHash, newNumber) == U64ModSmall(keyHash, newNumber)

RECURSIVE reinsertPairs(_, _, _, _, _)
\* Redistribe, the last loop: pairs[i..] put into bucket hash % newNumber
reinsertPairs(hp, bks, pairs, i, newNumber) ==
    IF i > Len(pairs) THEN hp
    ELSE LET index == redistIndex(pairs[i].hash, newNumber)
             b == bks[index + 1]
         IN  reinsertPairs([hp EXCEPT ![b] = bucketPut(hp[b], pairs[i]).chain],
                           bks, pairs, i + 1, newNumber)

\* n new buckets appended to the heap
allocBuckets(hp, n) == hp \o [i \in 1 .. n |-> emptyChain]

\* a mutant of resetCounts: the counters are left as they are
resetCounts_none(r) == r

\* Redistribe: both counters are stored as 0
resetCounts(r) == [r EXCEPT !.overweightBucketCount = 0, !.emptyBucketCount = 0]

\* the new bucket count Redistribe decides on, or 0 for its early returns
\* that leave the counters as they are
newBucketNumber(r, bucketStatus, currentNumber) ==
    IF bucketStatus = BUCKET_STATUS_OVERWEIGHT
    THEN IF r.overweightBucketCount * 4 < currentNumber THEN 0
         ELSE currentNumber * 2
    ELSE IF bucketStatus = BUCKET_STATUS_UNDERWEIGHT
    THEN IF currentNumber < 100 \/ r.emptyBucketCount * 4 < currentNumber THEN 0
         ELSE IF currentNumber \div 2 < 2 THEN 2 ELSE currentNumber \div 2
    ELSE 0

\* Redistribe: [pr, heap, newBuckets, changed]
Redistribe(r, bucketStatus, bks, hp) ==
    LET currentNumber == Len(bks)
        newNumber == newBucketNumber(r, bucketStatus, currentNumber)
        pairs == collectPairs(hp, bks, 1)
        \* growing: the old buckets are cleared and kept, new ones appended
        grownBks == bks \o [i \in 1 .. (newNumber - currentNumber) |-> Len(hp) + i]
        grownHp == allocBuckets([b \in DOMAIN hp |->
                                    IF \E i \in 1 .. currentNumber : bks[i] = b
                                    THEN emptyChain ELSE hp[b]],
                                newNumber - currentNumber)
        \* shrinking: a new slice of new buckets
        shrunkBks == [i \in 1 .. newNumber |-> Len(hp) + i]
        shrunkHp == allocBuckets(hp, newNumber)
    IN  IF newNumber = 0
        THEN [pr |-> r, heap |-> hp, newBuckets |-> <<>>, changed |-> FALSE]
        ELSE IF newNumber = currentNumber
        THEN [pr |-> resetCounts(r), heap |-> hp, newBuckets |-> <<>>, changed |-> FALSE]
        ELSE IF newNumber > currentNumber
        THEN [pr |-> resetCounts(r),
              heap |-> reinsertPairs(grownHp, grownBks, pairs, 1, newNumber),
              newBuckets |-> grownBks, changed |-> TRUE]
        ELSE [pr |-> resetCounts(r),
              heap |-> reinsertPairs(shrunkHp, shrunkBks, pairs, 1, newNumber),
              newBuckets |-> shrunkBks, changed |-> TRUE]

\* a mutant of redistribute: a fault of the policy leaves behind a slice of
\* new, empty buckets
redistribute_torn(s, hp, pTotal, bSize) ==
    IF policy = "faulty"
    THEN [pr |-> pr, heap |-> allocBuckets(hp, bucketsLen[s]),
          buckets |-> [i \in 1 .. bucketsLen[s] |-> Len(hp) + i],
          bucketsLen |-> bucketsLen[s], err |-> "PairRedistributorError"]
    ELSE LET r1 == UpdateThreshold(pr, pTotal, bucketsLen[s])
             c == CheckBucketStatus(r1, pTotal, bSize)
             d == Redistribe(c.pr, c.bucketStatus, buckets[s], hp)
         IN  IF d.changed
             THEN [pr |-> d.pr, heap |-> d.heap, buckets |-> d.newBuckets,
                   bucketsLen |-> Len(d.newBuckets), err |-> NIL]
             ELSE [pr |-> d.pr, heap |-> d.heap, buckets |-> buckets[s],
                   bucketsLen |-> bucketsLen[s], err |-> NIL]

(***************************************************************************)
(* segment.redistribute, called with the mutex held.  A faulty policy (an  *)
(* injected PairRedistributor whose UpdateThreshold panics) is recovered   *)
(* from: the result is a PairRedistributorError and nothing has changed.   *)
(* The result is [pr, heap, buckets, bucketsLen, err] for segment s.       *)
(***************************************************************************)
redistribute(s, hp, pTotal, bSize) ==
    IF policy = "faulty"
    THEN [pr |-> pr, heap |-> hp, buckets |-> buckets[s],
          bucketsLen |-> bucketsLen[s], err |-> "PairRedistributorError"]
    ELSE LET r1 == UpdateThreshold(pr, pTotal, bucketsLen[s])
             c == CheckBucketStatus(r1, pTotal, bSize)
             d == Redistribe(c.pr, c.bucketStatus, buckets[s], hp)
         IN  IF d.changed
             THEN [pr |-> d.pr, heap |-> d.heap, buckets |-> d.newBuckets,
                   bucketsLen |-> Len(d.newBuckets), err |-> NIL]
             ELSE [pr |-> d.pr, heap |-> d.heap, buckets |-> buckets[s],
                   bucketsLen |-> bucketsLen[s], err |-> NIL]


(***************************************************************************)
(* Views of the state.                                                     *)
(***************************************************************************)
\* Pair.Element of the Pair a lookup gave, nil for a nil Pair
pairElement(ps) == IF ps = <<>> THEN NIL ELSE ps[1].element

\* the bucket segment s keeps for a key hash: s.buckets[keyHash % s.bucketsLen]
bucketOf(s, keyHash) == buckets[s][U64ModSmall(keyHash, bucketsLen[s]) + 1]

\* what myConcurrentMap.Get(key) returns when it runs alone from this state
cmapGet(key) ==
    LET s == findSegment(KeyHash[key])
    IN  pairElement(bucketGet(heap[bucketOf(s, KeyHash[key])], key))

\* what segment.ForEach of segment s passes to its callback, in order
segmentPairs(s) == collectPairs(heap, buckets[s], 1)

\* the keys of the pairs linked in some bucket of some segment
storedKeys == {k \in Keys : \E s \in Segments :
                  \E i \in 1 .. Len(segmentPairs(s)) : segmentPairs(s)[i].key = k}

\* the number of pairs linked in the buckets of all segments
RECURSIVE pairCount(_)
pairCount(s) == IF s >= concurrency THEN 0 ELSE Len(segmentPairs(s)) + pairCount(s + 1)

\* no call is in flight
Quiescent == \A t \in Threads : th[t].pc = "idle"

(***************************************************************************)
(* Threads and calls.  A thread is idle or in a call; th[t].pc is where:   *)
(*   put_unlock, del_unlock, each_unlock  the segment's mutex is held and  *)
(*                         the work under it is done;                      *)
(*   get_read              GetWithHash has released the mutex, with b;     *)
(*   put_ret, del_ret      s.Put / s.Delete has returned to the map;       *)
(*   get_ret, len_ret, each_ret  the result is there, to be returned.      *)
(* Taking the mutex and the work under it are one step: the steps of the   *)
(* other threads in between see nothing of a mutex that is only held.      *)
(***************************************************************************)
Idle == [pc |-> "idle", op |-> "none", key |-> <<>>, elem |-> NIL, s |-> 0,
         b |-> 0, ok |-> FALSE, err |-> NIL, rerr |-> NIL, val |-> NIL,
         len |-> U64Zero, visited |-> <<>>]

Init ==
    /\ concurrency \in 1 .. MaxConcurrency
    /\ policy \in {"default", "faulty"}
    /\ total = U64Zero
    /\ buckets = [s \in Segments |->
                    [i \in 1 .. DEFAULT_BUCKET_NUMBER |-> s * DEFAULT_BUCKET_NUMBER + i]]
    /\ bucketsLen = [s \in Segments |-> DEFAULT_BUCKET_NUMBER]
    /\ pairTotal = [s \in Segments |-> 0]
    /\ lock = [s \in Segments |-> 0]
    /\ heap = [b \in 1 .. concurrency * DEFAULT_BUCKET_NUMBER |-> emptyChain]
    /\ pr = UpdateThreshold([upperThreshold |-> 0, overweightBucketCount |-> 0,
                             emptyBucketCount |-> 0], 0, DEFAULT_BUCKET_NUMBER)
    /\ th = [t \in Threads |-> Idle]
    /\ seq = [k \in Keys |-> NIL]
    /\ ncalls = 0

\* thread t, idle, makes a call
Calls(t) == th[t].pc = "idle" /\ ncalls < MaxOps /\ ncalls' = ncalls + 1

\* thread t's call returns
Returns(t) == th' = [th EXCEPT ![t] = Idle]

(***************************************************************************)
(* segment.lock, a sync.Mutex.                                             *)
(***************************************************************************)
\* a mutant of mutexIsFree: Lock does not wait for the holder
mutexIsFree_always(s) == TRUE

\* s.lock.Lock() returns only when no thread holds the mutex
mutexIsFree(s) == lock[s] = 0

\* a mutant of mutexLock: Lock returns without the mutex being held
mutexLock_none(s, t) == lock

\* the mutexes after s.lock.Lock() by thread t
mutexLock(s, t) == [lock EXCEPT ![s] = t]

\* a mutant of mutexUnlock: the mutex stays held
mutexUnlock_kept(s) == lock

\* the mutexes after s.lock.Unlock()
mutexUnlock(s) == [lock EXCEPT ![s] = 0]

(***************************************************************************)
(* myConcurrentMap.Put and segment.Put.                                    *)
(***************************************************************************)
\* Put with a nil element: newPair fails, Put returns (false, err)
PutNil(t, key) ==
    /\ Calls(t)
    /\ newPair(key, NIL).err # NIL
    /\ th' = [th EXCEPT ![t] = [Idle EXCEPT !.pc = "put_ret", !.op = "Put",
                                  !.key = key, !.elem = NIL, !.ok = FALSE,
                                  !.err = newPair(key, NIL).err]]
    /\ UNCHANGED <<concurrency, policy, total, structure, lock, seq>>

\* a mutant of putBucket: the index is not computed, the first bucket is used
putBucket_first(s, p) == buckets[s][1]

\* segment.Put: b := s.buckets[int(p.Hash() % uint64(s.bucketsLen))]
putBucket(s, p) == bucketOf(s, p.hash)

\* a mutant of segmentPut: the pair is taken for new whatever b.Put returned
segmentPut_alwaysNew(s, p) ==
    LET b == putBucket(s, p)
        r == bucketPut(heap[b], p)
        hp == [heap EXCEPT ![b] = r.chain]
        newTotal == pairTotal[s] + 1
        d == redistribute(s, hp, newTotal, bucketSize(r.chain))
    IN  [ok |-> TRUE, err |-> r.err, rerr |-> d.err, heap |-> d.heap,
         pr |-> d.pr, buckets |-> d.buckets, bucketsLen |-> d.bucketsLen,
         pairTotal |-> newTotal]

\* segment.Put under the mutex: b.Put, and for a new pair the count and the
\* redistribution check, whose error is dropped
segmentPut(s, p) ==
    LET b == putBucket(s, p)
        r == bucketPut(heap[b], p)
        hp == [heap EXCEPT ![b] = r.chain]
        newTotal == pairTotal[s] + 1
        d == redistribute(s, hp, newTotal, bucketSize(r.chain))
    IN  IF r.ok
        THEN [ok |-> TRUE, err |-> r.err, rerr |-> d.err, heap |-> d.heap,
              pr |-> d.pr, buckets |-> d.buckets, bucketsLen |-> d.bucketsLen,
              pairTotal |-> newTotal]
        ELSE [ok |-> FALSE, err |-> r.err, rerr |-> NIL, heap |-> hp,
              pr |-> pr, buckets |-> buckets[s], bucketsLen |-> bucketsLen[s],
              pairTotal |-> pairTotal[s]]

\* Put to s.Put's Unlock: newPair, findSegment, Lock, and the work under
\* the mutex
PutBody(t, key, element) ==
    /\ Calls(t)
    /\ newPair(key, element).err = NIL
    /\ LET s == findSegment(KeyHash[key])
           r == segmentPut(s, newPair(key, element).p)
       IN  /\ mutexIsFree(s)
           /\ lock' = mutexLock(s, t)
           /\ heap' = r.heap
           /\ pr' = r.pr
           /\ buckets' = [buckets EXCEPT ![s] = r.buckets]
           /\ bucketsLen' = [bucketsLen EXCEPT ![s] = r.bucketsLen]
           /\ pairTotal' = [pairTotal EXCEPT ![s] = r.pairTotal]
           /\ th' = [th EXCEPT ![t] = [Idle EXCEPT !.pc = "put_unlock", !.op = "Put",
                                         !.key = key, !.elem = element, !.s = s,
                                         !.ok = r.ok, !.err = r.err,
                                         !.rerr = r.rerr]]
    /\ UNCHANGED <<concurrency, policy, total, seq>>

\* s.lock.Unlock(), and s.Put returns (ok, err)
PutUnlock(t) ==
    /\ th[t].pc = "put_unlock"
    /\ lock' = mutexUnlock(th[t].s)
    /\ th' = [th EXCEPT ![t].pc = "put_ret"]
    /\ UNCHANGED <<concurrency, policy, total, structure, seq, ncalls>>

\* a mutant of cmapPutTotal: the count rises whether or not the pair is new
cmapPutTotal_always(ok) == U64Add(total, U64FromNat(1))

\* the global count after myConcurrentMap.Put got ok from s.Put
cmapPutTotal(ok) == IF ok THEN U64Add(total, U64FromNat(1)) ELSE total

\* Put, after s.Put (or after newPair failed): the global count, the return
PutRet(t) ==
    /\ th[t].pc = "put_ret"
    /\ total' = cmapPutTotal(th[t].ok)
    /\ seq' = IF th[t].err = NIL THEN [seq EXCEPT ![th[t].key] = th[t].elem] ELSE seq
    /\ Returns(t)
    /\ UNCHANGED <<concurrency, policy, structure, lock, ncalls>>

(***************************************************************************)
(* myConcurrentMap.Delete and segment.Delete.                              *)
(***************************************************************************)
\* a mutant of segmentDelete: the redistribution check runs whether or not a
\* pair was removed
segmentDelete_unchecked(s, key) ==
    LET b == bucketOf(s, KeyHash[key])
        r == bucketDelete(heap[b], key)
        hp == [heap EXCEPT ![b] = r.chain]
        newTotal == IF r.ok THEN pairTotal[s] - 1 ELSE pairTotal[s]
        d == redistribute(s, hp, newTotal, bucketSize(r.chain))
    IN  [ok |-> r.ok, rerr |-> d.err, heap |-> d.heap,
         pr |-> d.pr, buckets |-> d.buckets, bucketsLen |-> d.bucketsLen,
         pairTotal |-> newTotal]

\* segment.Delete under the mutex: b.Delete, and for a removed pair the
\* count and the redistribution check, whose error is dropped
segmentDelete(s, key) ==
    LET b == bucketOf(s, KeyHash[key])
        r == bucketDelete(heap[b], key)
        hp == [heap EXCEPT ![b] = r.chain]
        newTotal == pairTotal[s] - 1
        d == redistribute(s, hp, newTotal, bucketSize(r.chain))
    IN  IF r.ok
        THEN [ok |-> TRUE, rerr |-> d.err, heap |-> d.heap,
              pr |-> d.pr, buckets |-> d.buckets, bucketsLen |-> d.bucketsLen,
              pairTotal |-> newTotal]
        ELSE [ok |-> FALSE, rerr |-> NIL, heap |-> hp,
              pr |-> pr, buckets |-> buckets[s], bucketsLen |-> bucketsLen[s],
              pairTotal |-> pairTotal[s]]

\* Delete to s.Delete's Unlock: findSegment, Lock, the work under the mutex
DeleteBody(t, key) ==
    /\ Calls(t)
    /\ LET s == findSegment(KeyHash[key])
           r == segmentDelete(s, key)
       IN  /\ mutexIsFree(s)
           /\ lock' = mutexLock(s, t)
           /\ heap' = r.heap
           /\ pr' = r.pr
           /\ buckets' = [buckets EXCEPT ![s] = r.buckets]
           /\ bucketsLen' = [bucketsLen EXCEPT ![s] = r.bucketsLen]
           /\ pairTotal' = [pairTotal EXCEPT ![s] = r.pairTotal]
           /\ th' = [th EXCEPT ![t] = [Idle EXCEPT !.pc = "del_unlock", !.op = "Delete",
                                         !.key = key, !.s = s, !.ok = r.ok,
                                         !.rerr = r.rerr]]
    /\ UNCHANGED <<concurrency, policy, total, seq>>

\* s.lock.Unlock(), and s.Delete returns ok
DeleteUnlock(t) ==
    /\ th[t].pc = "del_unlock"
    /\ lock' = mutexUnlock(th[t].s)
    /\ th' = [th EXCEPT ![t].pc = "del_ret"]
    /\ UNCHANGED <<concurrency, policy, total, structure, seq, ncalls>>

\* a mutant of cmapDeleteTotal: the count is left as it is
cmapDeleteTotal_none(ok) == total

\* the global count after myConcurrentMap.Delete got ok from s.Delete:
\* atomic.AddUint64(&cmap.total, ^uint64(0))
cmapDeleteTotal(ok) == IF ok THEN U64Add(total, U64Max) ELSE total

\* Delete, after s.Delete: the global count, and the return
DeleteRet(t) ==
    /\ th[t].pc = "del_ret"
    /\ total' = cmapDeleteTotal(th[t].ok)
    /\ seq' = [seq EXCEPT ![th[t].key] = NIL]
    /\ Returns(t)
    /\ UNCHANGED <<concurrency, policy, structure, lock, ncalls>>

(***************************************************************************)
(* myConcurrentMap.Get and segment.GetWithHash.                            *)
(***************************************************************************)
\* Get to GetWithHash's Unlock: Lock, b := s.buckets[keyHash % bucketsLen],
\* Unlock; the mutex is taken and released around the one read
GetBucket(t, key) ==
    /\ Calls(t)
    /\ LET s == findSegment(KeyHash[key])
       IN  /\ mutexIsFree(s)
           /\ th' = [th EXCEPT ![t] = [Idle EXCEPT !.pc = "get_read", !.op = "Get",
                                         !.key = key, !.s = s,
                                         !.b = bucketOf(s, KeyHash[key])]]
    /\ UNCHANGED <<concurrency, policy, total, structure, lock, seq>>

\* b.Get(key) without the mutex, and Pair.Element
GetRead(t) ==
    /\ th[t].pc = "get_read"
    /\ th' = [th EXCEPT ![t].pc = "get_ret",
                        ![t].val = pairElement(bucketGet(heap[th[t].b], th[t].key))]
    /\ UNCHANGED <<concurrency, policy, total, structure, lock, seq, ncalls>>

GetRet(t) ==
    /\ th[t].pc = "get_ret"
    /\ Returns(t)
    /\ UNCHANGED <<concurrency, policy, total, structure, lock, seq, ncalls>>

(***************************************************************************)
(* myConcurrentMap.Len.                                                    *)
(***************************************************************************)
\* atomic.LoadUint64(&cmap.total)
LenLoad(t) ==
    /\ Calls(t)
    /\ th' = [th EXCEPT ![t] = [Idle EXCEPT !.pc = "len_ret", !.op = "Len",
                                  !.len = total]]
    /\ UNCHANGED <<concurrency, policy, total, structure, lock, seq>>

LenRet(t) ==
    /\ th[t].pc = "len_ret"
    /\ Returns(t)
    /\ UNCHANGED <<concurrency, policy, total, structure, lock, seq, ncalls>>

(***************************************************************************)
(* myConcurrentMap.ForEach and segment.ForEach, with a callback that       *)
(* records what it is passed.  th[t].s is the loop variable i.             *)
(***************************************************************************)
\* a mutant of segmentForEach: the inner loop is left after the first pair
segmentForEach_firstPairs(s) ==
    LET used == SelectSeq(buckets[s], LAMBDA b : heap[b] # emptyChain)
    IN  [i \in 1 .. Len(used) |-> <<heap[used[i]][1].key, heap[used[i]][1].element>>]

\* what segment.ForEach of segment s passes to fn, call by call
segmentForEach(s) ==
    [i \in 1 .. Len(segmentPairs(s)) |->
        <<segmentPairs(s)[i].key, segmentPairs(s)[i].element>>]

\* cmap.segments[i].ForEach(fn) to its Unlock: Lock, and the two loops
ForEachScan(t) ==
    /\ \/ Calls(t) /\ th[t].s = 0
       \/ th[t].pc = "each_next" /\ UNCHANGED ncalls
    /\ mutexIsFree(th[t].s)
    /\ lock' = mutexLock(th[t].s, t)
    /\ th' = [th EXCEPT ![t].pc = "each_unlock", ![t].op = "ForEach",
                        ![t].visited = @ \o segmentForEach(th[t].s)]
    /\ UNCHANGED <<concurrency, policy, total, structure, seq>>

\* s.lock.Unlock(), and i++
ForEachUnlock(t) ==
    /\ th[t].pc = "each_unlock"
    /\ lock' = mutexUnlock(th[t].s)
    /\ th' = [th EXCEPT ![t].pc = IF th[t].s + 1 < concurrency
                                  THEN "each_next" ELSE "each_ret",
                        ![t].s = @ + 1]
    /\ UNCHANGED <<concurrency, policy, total, structure, seq, ncalls>>

ForEachRet(t) ==
    /\ th[t].pc = "each_ret"
    /\ Returns(t)
    /\ UNCHANGED <<concurrency, policy, total, structure, lock, seq, ncalls>>

(***************************************************************************)
(* The specifications.                                                     *)
(***************************************************************************)
Next ==
    \E t \in Threads :
        \/ \E key \in Keys : PutNil(t, key)
        \/ \E key \in Keys, element \in Values \cup {NIL} : PutBody(t, key, element)
        \/ PutUnlock(t)
        \/ PutRet(t)
        \/ \E key \in Keys : DeleteBody(t, key)
        \/ DeleteUnlock(t)
        \/ DeleteRet(t)
        \/ \E key \in Keys : GetBucket(t, key)
        \/ GetRead(t)
        \/ GetRet(t)
        \/ LenLoad(t)
        \/ LenRet(t)
        \/ ForEachScan(t)
        \/ ForEachUnlock(t)
        \/ ForEachRet(t)

\* Any number of threads in calls at once.
Spec == Init /\ [][Next]_vars

\* One call at a time: a call is made only when no call is in flight.
OneAtATime == Cardinality({t \in Threads : th[t].pc # "idle"}) <= 1

SeqNext == Next /\ OneAtATime'

SeqSpec == Init /\ [][SeqNext]_vars

\* Each thread works on its own keys.
OwnKeys == \A t \in Threads : th[t].key # <<>> => th[t].key \in KeysOf(t)

DisjointNext == Next /\ OwnKeys'

DisjointSpec == Init /\ [][DisjointNext]_vars


\* No key has a Put and a Delete in flight at once: the calls that race on a
\* key are all Puts or all Deletes.
SameOp ==
    \A k \in Keys : \A t \in Threads, u \in Threads :
        ~(th[t].op = "Put" /\ th[t].key = k /\ th[u].op = "Delete" /\ th[u].key = k)

RaceNext == Next /\ SameOp'

RaceSpec == Init /\ [][RaceNext]_vars

\* The steps of thread t inside a call: all but the making of a call.
Progress(t) ==
    \/ PutUnlock(t) \/ PutRet(t)
    \/ DeleteUnlock(t) \/ DeleteRet(t)
    \/ GetRead(t) \/ GetRet(t)
    \/ LenRet(t)
    \/ (th[t].pc = "each_next" /\ ForEachScan(t))
    \/ ForEachUnlock(t) \/ ForEachRet(t)

\* Threads in calls at once, each on its own keys (which mutex a call takes
\* and when it releases it does not depend on the key), and each thread in
\* a call scheduled again and again: a goroutine that can run is run, and
\* one waiting at Lock gets the mutex once it stays free.
FairSpec == DisjointSpec /\ \A t \in Threads : WF_vars(Progress(t))

(***************************************************************************)
(* The properties.                                                         *)
(***************************************************************************)
U64One == U64FromNat(1)

\* thread t makes a Put that gets to s.Put / a Delete, in this step
PutBodyStep(t) == th[t].pc = "idle" /\ th'[t].pc = "put_unlock"
DeleteBodyStep(t) == th[t].pc = "idle" /\ th'[t].pc = "del_unlock"
\* thread t's Put / Delete returns, in this step
PutRetStep(t) == th[t].pc = "put_ret" /\ th'[t].pc = "idle"
DeleteRetStep(t) == th[t].pc = "del_ret" /\ th'[t].pc = "idle"

C2_Replacement ==
    [][\A t \in Threads, k \in Keys, v \in Values :
          /\ (PutBodyStep(t) /\ th'[t].key = k /\ th'[t].elem = v)
                => /\ th'[t].ok = (cmapGet(k) = NIL)
                   /\ cmapGet(k)' = v
                   /\ cmapGet(k) # NIL => pairTotal' = pairTotal /\ total' = total
          /\ (th[t].op = "Put" /\ th[t].key = k /\ th[t].elem = v /\ th'[t] # th[t])
                => /\ (th'[t].pc # "idle" => th'[t].ok = th[t].ok)
                   /\ cmapGet(k)' = v
                   /\ ~th[t].ok => pairTotal' = pairTotal /\ total' = total]_vars

\* a Put of a present key is returning false, with the key's value changed
C2_Witness ==
    \E t \in Threads :
        /\ th[t].pc = "put_ret" /\ th[t].err = NIL /\ ~th[t].ok
        /\ seq[th[t].key] \notin {NIL, th[t].elem}
        /\ total = U64FromNat(Cardinality(storedKeys))

\* C3 (deletion of a present key): with one call at a time, Delete(k) of a
\* present key returns true, Get(k) gives nil from then on, and as it
\* returns Len() is one less than it was.
C3_DeletePresent ==
    [][\A t \in Threads, k \in Keys :
          /\ (DeleteBodyStep(t) /\ th'[t].key = k /\ cmapGet(k) # NIL)
                => th'[t].ok /\ cmapGet(k)' = NIL /\ total' = total
          /\ (th[t].op = "Delete" /\ th[t].key = k /\ th[t].ok /\ th'[t] # th[t])
                => /\ cmapGet(k)' = NIL
                   /\ (th'[t].pc # "idle" => th'[t].ok /\ total' = total)
                   /\ (th'[t].pc = "idle"
                          => total # U64Zero /\ U64Add(total', U64One) = total)]_vars

\* a Delete that removed a pair is returning
C3_Witness ==
    \E t \in Threads :
        th[t].pc = "del_ret" /\ th[t].ok /\ seq[th[t].key] # NIL

\* C4 (deletion of an absent key): Delete(k) of a key that is not in the
\* map returns false, and no step of it changes Len(), a segment's live
\* count, a bucket array, a chain or the redistributor's state.
C4_DeleteAbsent ==
    [][\A t \in Threads, k \in Keys :
          /\ (DeleteBodyStep(t) /\ th'[t].key = k /\ cmapGet(k) = NIL)
                => ~th'[t].ok /\ UNCHANGED <<total, structure>>
          /\ (th[t].op = "Delete" /\ ~th[t].ok /\ th'[t] # th[t])
                => /\ UNCHANGED <<total, structure>>
                   /\ th'[t].pc # "idle" => ~th'[t].ok]_vars

\* a Delete of an absent key is returning false, other keys being stored
C4_Witness ==
    \E t \in Threads :
        /\ th[t].pc = "del_ret" /\ ~th[t].ok
        /\ cmapGet(th[t].key) = NIL
        /\ storedKeys # {}

\* C5 (count): whenever no call is in flight, Len() is the number of keys
\* stored, and no key is linked twice.
C5_Count ==
    Quiescent => /\ total = U64FromNat(Cardinality(storedKeys))
                 /\ pairCount(0) = Cardinality(storedKeys)

\* no call in flight, after two Puts, the resize of the second, and a Delete
\* that removed a pair
C5_Witness ==
    /\ Quiescent
    /\ Cardinality(storedKeys) = 1
    /\ bucketsLen[0] > DEFAULT_BUCKET_NUMBER
    /\ ncalls = MaxOps

\* C6 (disjoint keys): with each thread on its own keys, whenever a thread
\* is between calls each of its keys is present or absent, with the value,
\* as in the sequential run of the calls that returned; and when no call is
\* in flight Len() is the number of keys of that sequential run.
C6_DisjointKeys ==
    /\ \A t \in Threads : th[t].pc = "idle" =>
           \A k \in KeysOf(t) : cmapGet(k) = seq[k]
    /\ Quiescent => total = U64FromNat(Cardinality({k \in Keys : seq[k] # NIL}))

\* thread 1 is between calls, its key "i" stored, while thread 2's Put has
\* just resized the segment under the mutex, which moved "i" to another bucket
C6_Witness ==
    /\ th[1].pc = "idle" /\ seq[KeyI] # NIL /\ ncalls = 2
    /\ th[2].pc = "put_unlock" /\ th[2].ok
    /\ bucketsLen[th[2].s] > DEFAULT_BUCKET_NUMBER

\* C7 (resize): a step that changes a segment's bucket count leaves Get(k)
\* as it was for every key but the one put or deleted in that step, and
\* that key has the value put, or none.
C7_ResizeTransparent ==
    [][\A t \in Threads, s \in Segments :
          (th'[t] # th[t] /\ bucketsLen'[s] # bucketsLen[s])
              => \A k \in Keys :
                    cmapGet(k)' = IF th'[t].key # k THEN cmapGet(k)
                                   ELSE IF th'[t].op = "Put" THEN th'[t].elem
                                   ELSE NIL]_vars

\* a Put has just doubled the bucket count, and the two keys stored, which
\* shared a bucket and no longer do, are retrievable
C7_Witness ==
    \E t \in Threads :
        /\ th[t].pc = "put_unlock" /\ ncalls = 2
        /\ bucketsLen[th[t].s] = 2 * DEFAULT_BUCKET_NUMBER
        /\ cmapGet(KeyA) # NIL /\ cmapGet(KeyI) # NIL
        /\ bucketOf(th[t].s, KeyHash[KeyA]) # bucketOf(th[t].s, KeyHash[KeyI])

\* C8 (iteration): with one call at a time, ForEach passes its callback
\* each stored key once, with its value, and nothing else.
C8_ForEach ==
    \A t \in Threads : th[t].pc = "each_ret" =>
        LET v == th[t].visited IN
        /\ \A i, j \in 1 .. Len(v) : v[i][1] = v[j][1] => i = j
        /\ {v[i] : i \in 1 .. Len(v)} = {<<k, cmapGet(k)>> : k \in storedKeys}
        /\ \A k \in Keys : cmapGet(k) # NIL => k \in storedKeys

\* a ForEach after a resize has visited two keys
C8_Witness ==
    \E t \in Threads :
        /\ th[t].pc = "each_ret" /\ Len(th[t].visited) = 2
        /\ bucketsLen[0] > DEFAULT_BUCKET_NUMBER

\* Key hashes findSegment is tried on: those of the keys, and hashes that
\* differ in bits 16 to 18, 32 to 34 and 48 to 50.
HashSamples ==
    {KeyHash[k] : k \in Keys}
        \cup {<<0, a, b, c>> : a \in 0 .. 7, b \in 0 .. 7, c \in 0 .. 7}

\* C9 (routing), as claimed: for a shard count above 1, every segment index
\* is the segment of some key hash.
C9_FullRange ==
    concurrency > 1 =>
        \A i \in Segments : \E h \in HashSamples : findSegment(h) = i

\* C10 (redistributor errors), as claimed: a Put that inserted a new pair
\* and whose redistribution check failed returns true with a
\* PairRedistributorError.
C10_ErrorSurfaced ==
    \A t \in Threads :
        (th[t].pc = "put_ret" /\ th[t].ok /\ th[t].rerr # NIL)
            => th[t].err = "PairRedistributorError"

\* C11 (fault containment): with a policy that panics, a Put of an absent
\* key returns true without an error, with the key stored and the segment's
\* live count one more; a Delete of a present key returns true, with the key
\* gone and the live count one less; as either returns Len() moves by one;
\* and no step replaces a segment's bucket array or its length.
C11_FaultContained ==
    [][policy = "faulty" =>
          /\ UNCHANGED <<buckets, bucketsLen>>
          /\ \A t \in Threads, k \in Keys :
                /\ (PutBodyStep(t) /\ th'[t].key = k /\ cmapGet(k) = NIL)
                      => /\ th'[t].ok /\ th'[t].err = NIL
                         /\ th'[t].rerr = "PairRedistributorError"
                         /\ cmapGet(k)' = th'[t].elem
                         /\ pairTotal'[th'[t].s] = pairTotal[th'[t].s] + 1
                /\ (DeleteBodyStep(t) /\ th'[t].key = k /\ cmapGet(k) # NIL)
                      => /\ th'[t].ok
                         /\ th'[t].rerr = "PairRedistributorError"
                         /\ cmapGet(k)' = NIL
                         /\ pairTotal'[th'[t].s] = pairTotal[th'[t].s] - 1
                /\ (th[t].pc = "put_unlock" /\ th'[t] # th[t])
                      => th'[t].pc = "put_ret" /\ th'[t].ok = th[t].ok
                /\ (th[t].pc = "del_unlock" /\ th'[t] # th[t])
                      => th'[t].pc = "del_ret" /\ th'[t].ok = th[t].ok
                /\ (PutRetStep(t) /\ th[t].ok) => total' = U64Add(total, U64One)
                /\ (DeleteRetStep(t) /\ th[t].ok) => U64Add(total', U64One) = total]_vars

\* with a policy that panics, a Delete that removed a pair has returned
\* from the segment, its redistribution check having failed
C11_Witness ==
    \E t \in Threads :
        /\ policy = "faulty"
        /\ th[t].pc = "del_ret" /\ th[t].ok
        /\ th[t].rerr = "PairRedistributorError"
        /\ pairTotal[th[t].s] = 1

\* thread t makes a Put with a nil element, in this step
PutNilStep(t) == th[t].pc = "idle" /\ th'[t].op = "Put" /\ th'[t].elem = NIL

\* C12 (nil element): Put(k, nil) fails with an IllegalParameterError and
\* returns false, and no step of it changes Len(), a segment's live count,
\* a bucket array, a chain, or the value of a key.
C12_PutNil ==
    [][\A t \in Threads :
          /\ PutNilStep(t)
                => /\ th'[t].pc = "put_ret" /\ ~th'[t].ok
                   /\ th'[t].err = "IllegalParameterError"
                   /\ UNCHANGED <<total, structure>>
                   /\ \A k \in Keys : cmapGet(k)' = cmapGet(k)
          /\ (PutRetStep(t) /\ th[t].elem = NIL)
                => /\ UNCHANGED <<total, structure>>
                   /\ \A k \in Keys : cmapGet(k)' = cmapGet(k)]_vars

\* a Put of nil for a key that is stored is returning its error
C12_Witness ==
    \E t \in Threads :
        /\ th[t].pc = "put_ret" /\ th[t].elem = NIL
        /\ th[t].err = "IllegalParameterError"
        /\ cmapGet(th[t].key) # NIL

\* the threads inside segment.Put or segment.Delete of segment s, between
\* Lock and Unlock
Writers(s) == {t \in Threads : th[t].pc \in {"put_unlock", "del_unlock"} /\ th[t].s = s}

\* C13 (mutual exclusion): at most one thread is inside Put or Delete (and
\* the redistribution it triggers) of a segment, and it holds the segment's
\* mutex; a step that writes a segment's bucket array or bucketsLen is a
\* step of one thread, which took the mutex, free till then, and holds it.
C13_MutualExclusion ==
    [][\A s \in Segments :
          /\ Cardinality(Writers(s)') <= 1
          /\ \A t \in Writers(s)' : lock'[s] = t
          /\ (buckets'[s] # buckets[s] \/ bucketsLen'[s] # bucketsLen[s])
                => \E t \in Threads :
                      /\ lock[s] = 0 /\ lock'[s] = t
                      /\ th[t].pc = "idle" /\ t \in Writers(s)'
                      /\ \A u \in Threads \ {t} : th'[u] = th[u]]_vars

\* a Put has resized the segment under the mutex, which another Put, not
\* yet returned to its caller, had released
C13_Witness ==
    \E t \in Threads, u \in Threads :
        /\ th[t].pc = "put_unlock" /\ th[t].ok /\ lock[th[t].s] = t
        /\ bucketsLen[th[t].s] = 2 * DEFAULT_BUCKET_NUMBER
        /\ th[u].pc = "put_ret" /\ th[u].ok /\ th[u].s = th[t].s

\* C14 (Get under concurrent writers), as claimed: with each thread on its
\* own keys, so that a key of a thread in Get is stored with one value for
\* as long as the Get lasts, the Get's read of the chain gives that value,
\* whatever the other threads' Puts and Deletes did to the segment since
\* the Get released the mutex.
C14_GetConsistent ==
    [][\A t \in Threads, k \in Keys :
          (th[t].pc = "get_read" /\ th'[t].pc = "get_ret" /\ th[t].key = k
              /\ k \in KeysOf(t) /\ cmapGet(k) # NIL)
              => th'[t].val = cmapGet(k)]_vars

\* C15 (readers and writers), as claimed: while a thread is inside Put or
\* Delete of a segment, another thread's Get of a key of that segment can
\* start and run on, without waiting for the writer.
C15_ReadersNotBlocked ==
    \A t \in Threads, k \in Keys :
        (th[t].pc = "idle" /\ ncalls < MaxOps /\ Writers(findSegment(KeyHash[k])) # {})
            => ENABLED GetBucket(t, k)

\* C15, amended: a Get that has released the mutex can read its chain
\* whoever holds the mutex; a Get that has not yet taken the mutex can go
\* on exactly when no thread holds it, so it waits for a writer's Unlock.
C15_ReadersWaitForUnlock ==
    /\ \A t \in Threads : th[t].pc = "get_read" => ENABLED GetRead(t)
    /\ \A t \in Threads, k \in Keys :
          (th[t].pc = "idle" /\ ncalls < MaxOps)
              => (ENABLED GetBucket(t, k) <=> lock[findSegment(KeyHash[k])] = 0)

\* a Get has released the mutex and not yet read its chain, while a Put
\* that resized the segment holds the mutex
C15_Witness ==
    \E t \in Threads, u \in Threads :
        /\ th[t].pc = "get_read"
        /\ th[u].pc = "put_unlock" /\ th[u].s = th[t].s /\ lock[th[u].s] = u
        /\ bucketsLen[th[u].s] > DEFAULT_BUCKET_NUMBER

\* C16 (ForEach and its segment): from the scan of a segment to its Unlock
\* the scanning thread holds that segment's mutex and no other; what it
\* passed to the callback for the segment is what the segment holds; and
\* no step changes the segment's pairs or takes another thread into Put or
\* Delete of that segment.
C16_ForEachIsolation ==
    [][\A t \in Threads, s \in Segments :
          (th[t].pc = "each_unlock" /\ th[t].s = s)
              => /\ \A s2 \in Segments : lock[s2] = t <=> s2 = s
                 /\ LET v == th[t].visited
                        n == Len(segmentPairs(s))
                    IN  /\ Len(v) >= n
                        /\ SubSeq(v, Len(v) - n + 1, Len(v)) = segmentForEach(s)
                 /\ segmentPairs(s)' = segmentPairs(s)
                 /\ Writers(s)' = {}]_vars

\* a ForEach that was passed a pair of segment 0 holds the mutex of segment
\* 1, while a Put is inside segment 0
C16_Witness ==
    \E t \in Threads, u \in Threads :
        /\ th[t].pc = "each_unlock" /\ th[t].s = 1 /\ Len(th[t].visited) > 0
        /\ th[u].pc = "put_unlock" /\ th[u].s = 0 /\ th[u].ok

\* the indices of the buckets bks, with the chains hp, that the policy r
\* finds overweight
overweightBuckets(r, hp, bks) ==
    {i \in 1 .. Len(bks) :
        CheckBucketStatus(r, 0, bucketSize(hp[bks[i]])).bucketStatus
            = BUCKET_STATUS_OVERWEIGHT}

\* C17 (grow hysteresis), as claimed: with the default policy, a Put that
\* doubles the bucket count of a segment of more than 4 buckets finds, with
\* its pair linked, at least a quarter of the segment's buckets overweight.
C17_GrowHysteresis ==
    [][\A t \in Threads, s \in Segments :
          (policy = "default" /\ PutBodyStep(t) /\ th'[t].s = s
              /\ bucketsLen[s] > 4 /\ bucketsLen'[s] = 2 * bucketsLen[s])
              => LET p == newPair(th'[t].key, th'[t].elem).p
                     b == putBucket(s, p)
                     hp == [heap EXCEPT ![b] = bucketPut(heap[b], p).chain]
                 IN  Cardinality(overweightBuckets(pr', hp, buckets[s])) * 4
                         >= bucketsLen[s]]_vars

\* the redistributor's two counters
counters(r) == <<r.overweightBucketCount, r.emptyBucketCount>>

\* thread t's Put or Delete calls segment.redistribute, in this step
RedistributeStep(t) == (PutBodyStep(t) \/ DeleteBodyStep(t)) /\ th'[t].ok

\* C18 (counter reset), as claimed: with the default policy, after a Put or
\* Delete has called redistribute both counters are zero, whether or not
\* the bucket array was resized.
C18_CountersReset ==
    [][\A t \in Threads :
          (policy = "default" /\ RedistributeStep(t)) => counters(pr') = <<0, 0>>]_vars

\* C18, amended: after a call of redistribute that resized the bucket array
\* both counters are zero; a call that did not resize leaves each counter
\* at least what it was, one of them one more if the bucket checked was
\* overweight or empty.
C18_CountersResetOnResize ==
    [][\A t \in Threads :
          (policy = "default" /\ RedistributeStep(t))
              => IF bucketsLen' # bucketsLen
                 THEN counters(pr') = <<0, 0>>
                 ELSE /\ pr'.overweightBucketCount >= pr.overweightBucketCount
                      /\ pr'.emptyBucketCount >= pr.emptyBucketCount
                      /\ pr'.overweightBucketCount + pr'.emptyBucketCount
                            <= pr.overweightBucketCount + pr.emptyBucketCount + 1]_vars

\* after a resize, which reset the counters, a Delete's check has counted
\* its bucket
C18_Witness ==
    \E t \in Threads :
        /\ policy = "default"
        /\ th[t].pc = "del_unlock" /\ th[t].ok
        /\ bucketsLen[th[t].s] > DEFAULT_BUCKET_NUMBER
        /\ pr.overweightBucketCount + pr.emptyBucketCount = 1

\* the segments whose mutex thread t holds
heldBy(t) == {s \in Segments : lock[s] = t}

\* thread t is between Lock and Unlock
InCritical(t) == th[t].pc \in {"put_unlock", "del_unlock", "each_unlock"}

\* C19 (no deadlock): a thread holds the mutex of its segment between Lock
\* and Unlock and no mutex otherwise, so never two, and none when it has
\* returned, also with a policy that panics; and with fair scheduling the
\* calls made (there are at most MaxOps) all return, every thread ending
\* between calls, with no mutex held.
C19_NoDeadlock ==
    /\ [](\A t \in Threads :
            heldBy(t) = IF InCritical(t) THEN {th[t].s} ELSE {})
    /\ \A t \in Threads : <>[](th[t].pc = "idle" /\ heldBy(t) = {})

\* with a policy that panics, a Put holds the mutex that another Put, whose
\* redistribution check failed, has released
C19_Witness ==
    \E t \in Threads, u \in Threads :
        /\ th[u].pc = "put_ret" /\ th[u].rerr = "PairRedistributorError"
        /\ th[t].pc = "put_unlock" /\ th[t].rerr = "PairRedistributorError"
        /\ th[t].s = th[u].s /\ lock[th[t].s] = t

\* C20 (no underflow), as claimed: the global counter, and what Len()
\* returns, is never more than the number of calls made, so never a value
\* wrapped around 2^64.
C20_NoUnderflow ==
    /\ total[1] <= ncalls /\ total[2] = 0 /\ total[3] = 0 /\ total[4] = 0
    /\ \A t \in Threads :
          th[t].pc = "len_ret"
              => th[t].len[1] <= ncalls /\ th[t].len[2] = 0
                   /\ th[t].len[3] = 0 /\ th[t].len[4] = 0

\* thread t is in Put / Delete of key k and past the segment's work
PutDone(t, k) ==
    th[t].op = "Put" /\ th[t].key = k /\ th[t].err = NIL
        /\ th[t].pc \in {"put_unlock", "put_ret"}
DeleteDone(t, k) ==
    th[t].op = "Delete" /\ th[t].key = k /\ th[t].pc \in {"del_unlock", "del_ret"}

\* the increments / decrements of the global counter that calls in flight
\* have still to apply
pendingAdds == Cardinality({t \in Threads : th[t].pc \in {"put_unlock", "put_ret"} /\ th[t].ok})
pendingSubs == Cardinality({t \in Threads : th[t].pc \in {"del_unlock", "del_ret"} /\ th[t].ok})

\* C21 (same-key races), with no Put and Delete of one key in flight at
\* once: of two Puts of one key in flight at once at most
\* one is new, and exactly one if the key was absent (the first to take the
\* mutex finds it absent and is new, the other replaces); of two Deletes of
\* one key at most one removes, and exactly one if the key was present;
\* each return moves Len() by one exactly when its call was new / removed,
\* so that with the calls in flight counted Len() is the number of pairs
\* stored: the race moves it by one.
C21_SameKeyRaces ==
    /\ [](U64Add(total, U64FromNat(pendingAdds))
             = U64Add(U64FromNat(pairCount(0)), U64FromNat(pendingSubs)))
    /\ [][\A t \in Threads, k \in Keys :
             /\ (PutBodyStep(t) /\ th'[t].key = k)
                   => /\ th'[t].ok = (cmapGet(k) = NIL)
                      /\ \A u \in Threads \ {t} :
                            (PutDone(u, k) /\ th[u].ok) => ~th'[t].ok
             /\ (DeleteBodyStep(t) /\ th'[t].key = k)
                   => /\ th'[t].ok = (cmapGet(k) # NIL)
                      /\ \A u \in Threads \ {t} :
                            (DeleteDone(u, k) /\ th[u].ok) => ~th'[t].ok
             /\ PutRetStep(t)
                   => total' = IF th[t].ok THEN U64Add(total, U64One) ELSE total
             /\ DeleteRetStep(t)
                   => total = IF th[t].ok THEN U64Add(total', U64One) ELSE total']_vars

\* two Deletes of one stored key are in flight: the first removed the pair,
\* the second, inside the segment, found none
C21_Witness ==
    \E t \in Threads, u \in Threads, k \in Keys :
        /\ DeleteDone(u, k) /\ th[u].pc = "del_ret" /\ th[u].ok
        /\ DeleteDone(t, k) /\ th[t].pc = "del_unlock" /\ ~th[t].ok
        /\ total = U64One

\* Bucket counts a segment that keeps doubling goes through, the last two
\* large enough for Redistribe's halving branch; and counts of empty
\* buckets, the larger a quarter of the largest bucket count.
BucketNumbers == {DEFAULT_BUCKET_NUMBER, 2 * DEFAULT_BUCKET_NUMBER,
                  16 * DEFAULT_BUCKET_NUMBER, 32 * DEFAULT_BUCKET_NUMBER}
EmptyCounts == {0, 8 * DEFAULT_BUCKET_NUMBER}

\* C22 (no shrink): with the default policy, whatever the size of the
\* bucket checked, the status check does not report Underweight, and what
\* Redistribe decides from its report, also for a segment of 100 buckets
\* or more with a quarter of them counted empty, is no change or twice the
\* bucket count; and every step leaves a segment's bucketsLen as it is or
\* doubles it.
C22_NeverShrinks ==
    /\ [](policy = "default" =>
            \A bSize \in 0 .. MaxOps, e \in EmptyCounts, n \in BucketNumbers :
                LET c == CheckBucketStatus([pr EXCEPT !.emptyBucketCount = @ + e],
                                           pairTotal[0], bSize)
                IN  /\ c.bucketStatus # BUCKET_STATUS_UNDERWEIGHT
                    /\ newBucketNumber(c.pr, c.bucketStatus, n) \in {0, 2 * n})
    /\ [][policy = "default" =>
            \A s \in Segments :
                bucketsLen'[s] \in {bucketsLen[s], 2 * bucketsLen[s]}]_vars

\* with the default policy, a Delete has emptied a bucket of a segment that
\* had grown, and the check counted the empty bucket
C22_Witness ==
    \E t \in Threads :
        /\ policy = "default"
        /\ th[t].pc = "del_ret" /\ th[t].ok
        /\ bucketsLen[th[t].s] = 2 * DEFAULT_BUCKET_NUMBER
        /\ pr.emptyBucketCount = 1

====
